---- MODULE Spec2Model ----
(***************************************************************************)
(* A model of mobfot/client.py: the MobFot client, its finished-match file *)
(* cache (get_match_details), the query primitive (_execute_query) and the *)
(* date check of get_matches_by_date.                                      *)
(*                                                                         *)
(* Several client instances share one cache directory.  A call of          *)
(* get_match_details is a sequence of steps (load, query, open, write) so  *)
(* that calls of different instances interleave the way processes do.      *)
(* A file is a sequence of tokens; a writer has its own file offset.       *)
(***************************************************************************)
EXTENDS Integers, Sequences, FiniteSets, TLC

\* ------------------------------------------------------------------ bounds
MaxVersion == 2      \* the remote document of a match has versions 1..MaxVersion
MaxDateLen == 8      \* free-form date strings have at most this many characters
ChunkLen   == 3      \* tokens that reach the file in one step of a write

\* Two client instances share the cache directory; two match ids are asked for.
Clients  == {"a", "b"}
MatchIds == {41, 42}
Versions == 1..MaxVersion

\* --------------------------------------------------------------- documents
\* A response document: hdr says whether match["header"]["status"] is there,
\* started/finished are its two flags, ver stands for the rest of the body.
\* Only a finished match reaches the cache, so only finished matches come in
\* several versions.
Docs ==
    [hdr : {TRUE}, started : {TRUE}, finished : {TRUE}, ver : Versions]
    \cup {[hdr |-> TRUE, started |-> s, finished |-> f, ver |-> 1] :
             s \in BOOLEAN, f \in BOOLEAN}
    \cup {[hdr |-> FALSE, started |-> FALSE, finished |-> FALSE, ver |-> 1]}

NoDoc == [hdr |-> FALSE, started |-> FALSE, finished |-> FALSE, ver |-> 0]

\* json.dumps(match_details): "{" header-flags body... "}".  The body of
\* version v takes v tokens, so documents differ in length.
Flag(name, b) == IF b THEN name \o "1" ELSE name \o "0"

Body(v) == [i \in 1..v |-> "v"]

\* str(match_details) in place of json.dumps: Python's repr of the mapping.
str_repr(d) ==
    <<"{">>
    \o (IF d.hdr THEN <<Flag("S", d.started), Flag("F", d.finished)>> ELSE <<>>)
    \o [i \in 1..d.ver |-> "V"]
    \o <<"}">>

json_dumps(d) ==
    <<"{">>
    \o (IF d.hdr THEN <<Flag("s", d.started), Flag("f", d.finished)>> ELSE <<>>)
    \o Body(d.ver)
    \o <<"}">>

\* json.load(file): parses the token sequence; anything that is not one
\* whole document (empty, truncated, trailing data) is a decode error.
IsBody(t, from, to) == \A i \in from..to : t[i] = "v"

json_decodes(t) ==
    /\ Len(t) >= 2
    /\ t[1] = "{"
    /\ t[Len(t)] = "}"
    /\ \/ /\ Len(t) >= 5
          /\ t[2] \in {"s0", "s1"}
          /\ t[3] \in {"f0", "f1"}
          /\ IsBody(t, 4, Len(t) - 1)
       \/ IsBody(t, 2, Len(t) - 1)

json_load(t) ==
    IF t[2] \in {"s0", "s1"}
    THEN [hdr |-> TRUE, started |-> (t[2] = "s1"), finished |-> (t[3] = "f1"),
          ver |-> Len(t) - 4]
    ELSE [hdr |-> FALSE, started |-> FALSE, finished |-> FALSE, ver |-> Len(t) - 2]

\* Python truthiness of a decoded document: a non-empty mapping is truthy.
Truthy(d) == d.hdr \/ d.ver > 0

\* ------------------------------------------------------------------- state
VARIABLES
    dirExists,   \* the cache directory DATA_PATH exists
    file,        \* path -> [exists, text]: the files of the cache directory
    pc,          \* client -> where the instance is
    mid,         \* client -> match_id of the call in progress (0: none)
    nocache,     \* client -> no_cache of the call in progress
    cached,      \* client -> match_from_cache: [kind: "none"|"doc", doc]
    fetched,     \* client -> match_details, the document the query returned
    pos,         \* client -> offset of the writer's file handle
    op,          \* client -> the method of the current/last call
    status,      \* client -> HTTP status the last call's query met (0: none)
    result,      \* client -> outcome of the current/last call: [kind, doc]
    queried,     \* client -> the current/last call invoked session.get
    wrote,       \* client -> the current/last call opened the cache file
    ioFailed,    \* client -> the call's cache write raised and was swallowed
    raced,       \* client -> another instance touched the file it is writing
    date,        \* argument of get_matches_by_date
    dateOut      \* its outcome: [kind, queried]

locals    == <<mid, nocache, cached, fetched, pos>>
observed  == <<op, status, result, queried, wrote, ioFailed>>
shared    == <<dirExists, file, raced>>
cacheVars == <<shared, pc, locals, observed>>
dateVars  == <<date, dateOut>>
vars      == <<cacheVars, dateVars>>

\* ------------------------------------------------------------ pure helpers
\* _parse_filepath: DATA_PATH + str(match_id) + ".json"
_parse_filepath(match_id) == <<"mobfot/", match_id, ".json">>

Paths == {_parse_filepath(m) : m \in MatchIds}

Absent == [exists |-> FALSE, text |-> <<>>]

\* The test of the finished flag alone.
only_finished(match) == match.finished

\* _match_is_finished: finished and started (the KeyError of a document
\* without the header is raised by the caller of this operator).
_match_is_finished(match) == match.finished /\ match.started

\* raise_for_status: 4xx and 5xx raise HTTPError.
RaisesForStatus(s) == s >= 400 /\ s < 600

HttpStatuses == {200, 404, 503}

\* Writing chunk at offset p through a handle opened without O_APPEND: the
\* bytes land at the handle's own offset; a gap left by another writer's
\* truncation reads as NUL.
Overlay(text, p, chunk) ==
    LET n == IF Len(text) > p + Len(chunk) THEN Len(text) ELSE p + Len(chunk)
    IN  [i \in 1..n |->
            IF i > p /\ i <= p + Len(chunk) THEN chunk[i - p]
            ELSE IF i <= Len(text) THEN text[i]
            ELSE "nul"]

Pending     == [kind |-> "pending", doc |-> NoDoc]
Returned(d) == [kind |-> "json", doc |-> d]
Raised(e)   == [kind |-> e, doc |-> NoDoc]

NoCache == [kind |-> "none", doc |-> NoDoc]

\* What the transport can answer: a status, and a body that is a JSON
\* document or not JSON at all.  An error status comes with a body that is
\* not JSON or with the document of a finished match.
Responses ==
    [status : {200}, json : {TRUE}, body : Docs]
    \cup [status : HttpStatuses, json : {FALSE}, body : {NoDoc}]
    \cup [status : HttpStatuses \ {200}, json : {TRUE},
          body : {[hdr |-> TRUE, started |-> TRUE, finished |-> TRUE, ver |-> 1]}]

Min(a, b) == IF a < b THEN a ELSE b

\* ------------------------------------------------------------ construction
\* _get_data_path: TRUE when a path is returned, FALSE when it raises
\* (KeyError on APPDATA, the XDG_DATA_HOME exception, NotImplementedError).
_get_data_path(osName, envSet) ==
    IF osName = "nt" THEN envSet
    ELSE IF osName = "posix" THEN envSet
    ELSE FALSE

OsNames == {"nt", "posix", "java"}

\* __init__ up to the os.path.exists test of _create_data_folder_if_not_exists.
Construct(c) ==
    /\ pc[c] = "new"
    /\ \E osName \in OsNames, envSet \in BOOLEAN :
          pc' = [pc EXCEPT ![c] =
                    IF ~_get_data_path(osName, envSet) THEN "failed"
                    ELSE IF dirExists THEN "idle"
                    ELSE "makedirs"]
    /\ UNCHANGED <<file, raced, dirExists, locals, observed, dateVars>>

\* The constructor without the os.makedirs call.
skip_makedirs(c) ==
    /\ pc[c] = "makedirs"
    /\ pc' = [pc EXCEPT ![c] = "idle"]
    /\ UNCHANGED <<file, raced, dirExists, locals, observed, dateVars>>

\* os.makedirs(DATA_PATH): creates the directory, or raises (it exists by
\* now, permissions, ...) and the constructor ends in SystemExit.
_create_data_folder_if_not_exists(c) ==
    /\ pc[c] = "makedirs"
    /\ \/ /\ ~dirExists
          /\ dirExists' = TRUE
          /\ pc' = [pc EXCEPT ![c] = "idle"]
       \/ /\ pc' = [pc EXCEPT ![c] = "failed"]
          /\ UNCHANGED dirExists
    /\ UNCHANGED <<file, raced, locals, observed, dateVars>>

\* ------------------------------------------------------- query primitive
\* The query without the raise_for_status call.
_execute_query_unchecked(resp) ==
    IF ~resp.json THEN Raised("JSONDecodeError") ELSE Returned(resp.body)

\* _execute_query: session.get, raise_for_status, response.json().
_execute_query(resp) ==
    IF RaisesForStatus(resp.status) THEN Raised("HTTPError")
    ELSE IF ~resp.json THEN Raised("JSONDecodeError")
    ELSE Returned(resp.body)

\* The call is over: its outcome is r, its locals are gone.
Return(c, r) ==
    /\ result' = [result EXCEPT ![c] = r]
    /\ pc' = [pc EXCEPT ![c] = "idle"]
    /\ mid' = [mid EXCEPT ![c] = 0]
    /\ nocache' = [nocache EXCEPT ![c] = FALSE]
    /\ cached' = [cached EXCEPT ![c] = NoCache]
    /\ fetched' = [fetched EXCEPT ![c] = NoDoc]
    /\ pos' = [pos EXCEPT ![c] = 0]

\* get_league, get_team, get_player, get_match_tv_listing,
\* get_tv_listings_country, search: build the URL, _execute_query, return.
get_endpoint(c) ==
    /\ pc[c] = "idle"
    /\ \E resp \in Responses :
          /\ status' = [status EXCEPT ![c] = resp.status]
          /\ Return(c, _execute_query(resp))
    /\ op' = [op EXCEPT ![c] = "endpoint"]
    /\ queried' = [queried EXCEPT ![c] = TRUE]
    /\ wrote' = [wrote EXCEPT ![c] = FALSE]
    /\ ioFailed' = [ioFailed EXCEPT ![c] = FALSE]
    /\ UNCHANGED <<shared, dateVars>>

\* ------------------------------------------------------ get_match_details
\* The call: url and filepath are built, nothing shared is touched yet.
get_match_details(c, match_id, no_cache) ==
    /\ pc[c] = "idle"
    /\ pc' = [pc EXCEPT ![c] = "load"]
    /\ op' = [op EXCEPT ![c] = "match_details"]
    /\ mid' = [mid EXCEPT ![c] = match_id]
    /\ nocache' = [nocache EXCEPT ![c] = no_cache]
    /\ status' = [status EXCEPT ![c] = 0]
    /\ result' = [result EXCEPT ![c] = Pending]
    /\ queried' = [queried EXCEPT ![c] = FALSE]
    /\ wrote' = [wrote EXCEPT ![c] = FALSE]
    /\ ioFailed' = [ioFailed EXCEPT ![c] = FALSE]
    /\ UNCHANGED <<shared, cached, fetched, pos, dateVars>>

\* A load that looks at the wrong path and so never finds the file.
load_wrong_path(f) == [kind |-> "none", doc |-> NoDoc]

\* A load that catches the decode error and returns None.
load_or_none(f) ==
    IF f.exists /\ json_decodes(f.text)
    THEN [kind |-> "doc", doc |-> json_load(f.text)]
    ELSE [kind |-> "none", doc |-> NoDoc]

\* _load_if_file_exist: None without the file, else json.load of it, which
\* raises on a file that is not one whole document.
_load_if_file_exist(f) ==
    IF ~f.exists THEN [kind |-> "none", doc |-> NoDoc]
    ELSE IF json_decodes(f.text) THEN [kind |-> "doc", doc |-> json_load(f.text)]
    ELSE [kind |-> "raise", doc |-> NoDoc]

\* The test with the flag inverted: no_cache and match_from_cache.
CacheHit_inverted(no_cache, match_from_cache) ==
    no_cache /\ match_from_cache.kind = "doc" /\ Truthy(match_from_cache.doc)

\* The test of line 197: not no_cache and match_from_cache.
CacheHit(no_cache, match_from_cache) ==
    ~no_cache /\ match_from_cache.kind = "doc" /\ Truthy(match_from_cache.doc)

\* Lines 196-198: the load, the test and the return of the cached document.
LoadCache(c) ==
    /\ pc[c] = "load"
    /\ LET loaded == _load_if_file_exist(file[_parse_filepath(mid[c])])
       IN  IF loaded.kind = "raise"
           THEN Return(c, Raised("CacheDecodeError"))
           ELSE IF CacheHit(nocache[c], loaded)
           THEN Return(c, Returned(loaded.doc))
           ELSE /\ cached' = [cached EXCEPT ![c] = loaded]
                /\ pc' = [pc EXCEPT ![c] = "query"]
                /\ UNCHANGED <<result, mid, nocache, fetched, pos>>
    /\ UNCHANGED <<shared, op, status, queried, wrote, ioFailed, dateVars>>

\* Lines 200-201 (and 207 for a match that is not finished).
QueryMatch(c) ==
    /\ pc[c] = "query"
    /\ queried' = [queried EXCEPT ![c] = TRUE]
    /\ \E resp \in Responses :
          /\ status' = [status EXCEPT ![c] = resp.status]
          /\ LET out == _execute_query(resp)
             IN  IF out.kind # "json" THEN Return(c, out)
                 ELSE IF ~out.doc.hdr THEN Return(c, Raised("KeyError"))
                 ELSE IF _match_is_finished(out.doc)
                 THEN /\ pc' = [pc EXCEPT ![c] = "open"]
                      /\ fetched' = [fetched EXCEPT ![c] = out.doc]
                      /\ UNCHANGED <<result, mid, nocache, cached, pos>>
                 ELSE Return(c, Returned(out.doc))
    /\ UNCHANGED <<shared, op, wrote, ioFailed, dateVars>>

\* The write without the try/except: the error reaches the caller.
PropagateWriteError(c) ==
    /\ ioFailed' = [ioFailed EXCEPT ![c] = TRUE]
    /\ Return(c, Raised("OSError"))

\* Lines 205-207: the except clause swallows the error, the fetched
\* document is returned.
SwallowWriteError(c) ==
    /\ ioFailed' = [ioFailed EXCEPT ![c] = TRUE]
    /\ Return(c, Returned(fetched[c]))

\* Client c has touched the file it writes: every other instance that is
\* writing the same file has been raced; mine is c's own flag afterwards.
Touch(c, mine) ==
    raced' = [d \in Clients |->
                IF d = c THEN mine
                ELSE IF pc[d] = "write" /\ mid[d] = mid[c] THEN TRUE
                ELSE raced[d]]

\* Line 203: open(filepath, "w") truncates the file, or raises.
OpenWrite(c) ==
    /\ pc[c] = "open"
    /\ wrote' = [wrote EXCEPT ![c] = TRUE]
    /\ \/ /\ dirExists
          /\ file' = [file EXCEPT ![_parse_filepath(mid[c])] =
                         [exists |-> TRUE, text |-> <<>>]]
          /\ pc' = [pc EXCEPT ![c] = "write"]
          /\ Touch(c, FALSE)
          /\ UNCHANGED <<result, ioFailed, locals>>
       \/ /\ SwallowWriteError(c)
          /\ UNCHANGED <<file, raced>>
    /\ UNCHANGED <<dirExists, op, status, queried, dateVars>>

\* Line 204: file.write(json.dumps(match_details)); at most ChunkLen tokens
\* reach the file at a time, the last chunk closes the file and line 207
\* returns.  A failing write is swallowed like a failing open.
WriteChunk(c) ==
    /\ pc[c] = "write"
    /\ LET p     == _parse_filepath(mid[c])
           text  == json_dumps(fetched[c])
           upto  == Min(pos[c] + ChunkLen, Len(text))
           chunk == SubSeq(text, pos[c] + 1, upto)
       IN  \/ /\ file' = [file EXCEPT ![p] =
                             [exists |-> TRUE,
                              text |-> Overlay(file[p].text, pos[c], chunk)]]
              /\ IF upto = Len(text)
                 THEN /\ Return(c, Returned(fetched[c]))
                      /\ Touch(c, FALSE)
                 ELSE /\ pos' = [pos EXCEPT ![c] = upto]
                      /\ Touch(c, raced[c])
                      /\ UNCHANGED <<result, pc, mid, nocache, cached, fetched>>
              /\ UNCHANGED ioFailed
           \/ /\ SwallowWriteError(c)
              /\ raced' = [raced EXCEPT ![c] = FALSE]
              /\ UNCHANGED file
    /\ UNCHANGED <<dirExists, op, status, queried, wrote, dateVars>>

\* ---------------------------------------------------- get_matches_by_date
Digits    == {"0", "2", "9"}
DateChars == Digits \cup {"-"}

\* The check with the pattern of the documented format, YYYY-MM-DD.
_check_date_hyphenated(d) ==
    /\ Len(d) >= 10
    /\ d[1] = "2"
    /\ d[2] = "0"
    /\ \A i \in {3, 4, 6, 7, 9, 10} : d[i] \in Digits
    /\ d[5] = "-"
    /\ d[8] = "-"

\* _check_date: re.compile(r"(20\d{2})(\d{2})(\d{2})").match(date), which
\* matches at the start of the string; TRUE for a match, FALSE for None.
_check_date(d) ==
    /\ Len(d) >= 8
    /\ d[1] = "2"
    /\ d[2] = "0"
    /\ \A i \in 3..8 : d[i] \in Digits

NoOutcome == [kind |-> "none", queried |-> FALSE]

\* get_matches_by_date: the query when the date passes the check, else {}.
get_matches_by_date ==
    /\ dateOut = NoOutcome
    /\ IF _check_date(date)
       THEN \E resp \in Responses :
               dateOut' = [kind |-> _execute_query(resp).kind, queried |-> TRUE]
       ELSE dateOut' = [kind |-> "empty", queried |-> FALSE]
    /\ UNCHANGED <<date, cacheVars>>

\* The dates asked for: every string of at most MaxDateLen characters, and
\* every date written YYYY-MM-DD.
HyphenatedDates ==
    {<<y1, y2, y3, y4, "-", m1, m2, "-", d1, d2>> :
        y1 \in Digits, y2 \in Digits, y3 \in Digits, y4 \in Digits,
        m1 \in Digits, m2 \in Digits, d1 \in Digits, d2 \in Digits}

DateSet ==
    UNION {[1..n -> DateChars] : n \in 0..MaxDateLen} \cup HyphenatedDates

\* ----------------------------------------------------------- specification

Init ==
    /\ dirExists \in BOOLEAN
    /\ file = [p \in Paths |-> Absent]
    /\ pc = [c \in Clients |-> "new"]
    /\ mid = [c \in Clients |-> 0]
    /\ nocache = [c \in Clients |-> FALSE]
    /\ cached = [c \in Clients |-> NoCache]
    /\ fetched = [c \in Clients |-> NoDoc]
    /\ pos = [c \in Clients |-> 0]
    /\ op = [c \in Clients |-> "none"]
    /\ status = [c \in Clients |-> 0]
    /\ result = [c \in Clients |-> Pending]
    /\ queried = [c \in Clients |-> FALSE]
    /\ wrote = [c \in Clients |-> FALSE]
    /\ ioFailed = [c \in Clients |-> FALSE]
    /\ raced = [c \in Clients |-> FALSE]
    /\ date = <<>>
    /\ dateOut = NoOutcome

Next ==
    \E c \in Clients :
       \/ Construct(c)
       \/ _create_data_folder_if_not_exists(c)
       \/ get_endpoint(c)
       \/ \E m \in MatchIds, nc \in BOOLEAN : get_match_details(c, m, nc)
       \/ LoadCache(c)
       \/ QueryMatch(c)
       \/ OpenWrite(c)
       \/ WriteChunk(c)

Spec == Init /\ [][Next]_vars

\* One constructed client, asked for the matches of a date.
InitDate ==
    /\ dirExists = TRUE
    /\ file = [p \in Paths |-> Absent]
    /\ pc = [c \in Clients |-> "idle"]
    /\ mid = [c \in Clients |-> 0]
    /\ nocache = [c \in Clients |-> FALSE]
    /\ cached = [c \in Clients |-> NoCache]
    /\ fetched = [c \in Clients |-> NoDoc]
    /\ pos = [c \in Clients |-> 0]
    /\ op = [c \in Clients |-> "none"]
    /\ status = [c \in Clients |-> 0]
    /\ result = [c \in Clients |-> Pending]
    /\ queried = [c \in Clients |-> FALSE]
    /\ wrote = [c \in Clients |-> FALSE]
    /\ ioFailed = [c \in Clients |-> FALSE]
    /\ raced = [c \in Clients |-> FALSE]
    /\ date \in DateSet
    /\ dateOut = NoOutcome

NextDate == get_matches_by_date

SpecDate == InitDate /\ [][NextDate]_vars

\* ================================================================== claims
\* <cache-dir>/<match_id>.json, as the claims name the cache file of a match.
CacheFile(m) == file[<<"mobfot/", m, ".json">>]

CacheFileAfter(m) == file'[<<"mobfot/", m, ".json">>]

\* The file holds one whole, non-empty JSON document.
HoldsDocument(f) ==
    f.exists /\ json_decodes(f.text) /\ Truthy(json_load(f.text))

\* Client c leaves the load of its call in this step.
LoadStep(c) == pc[c] = "load" /\ pc'[c] # "load"

\* C1 (as claimed): whenever the cache file of the match exists and the call
\* is made with no_cache false, the call returns the file's content and
\* makes no network call.
C1_AsClaimed ==
    [][\A c \in Clients :
          (LoadStep(c) /\ ~nocache[c] /\ CacheFile(mid[c]).exists)
          => /\ pc'[c] = "idle"
             /\ result'[c].kind = "json"
             /\ json_dumps(result'[c].doc) = CacheFile(mid[c]).text
             /\ ~queried'[c]]_vars

\* C1 (amended): whenever the cache file of the match exists and holds one
\* whole, non-empty JSON document, a call with no_cache false returns that
\* document, makes no network call and leaves the files alone.
C1_CompleteFileIsReturned ==
    [][\A c \in Clients :
          (LoadStep(c) /\ ~nocache[c] /\ HoldsDocument(CacheFile(mid[c])))
          => /\ pc'[c] = "idle"
             /\ result'[c] = Returned(json_load(CacheFile(mid[c]).text))
             /\ json_dumps(result'[c].doc) = CacheFile(mid[c]).text
             /\ ~queried'[c]
             /\ file' = file]_vars

\* C1 witness: a call has returned the content of a cache file without a
\* network call.
C1_Witness ==
    \E c \in Clients, m \in MatchIds :
       /\ pc[c] = "idle"
       /\ result[c].kind = "json"
       /\ ~queried[c]
       /\ HoldsDocument(CacheFile(m))
       /\ result[c].doc = json_load(CacheFile(m).text)

\* C2 (as claimed): a call made with no_cache true reaches the HTTP GET,
\* whatever the state of the cache file (absent, valid, corrupt or partial).
C2_BypassReachesGet ==
    [][\A c \in Clients :
          (LoadStep(c) /\ nocache[c]) => pc'[c] = "query"]_vars

\* C3 (as claimed): once a cache file has been written, no later call
\* changes its content or writes it again.
C3_AsClaimed ==
    [][\A m \in MatchIds :
          HoldsDocument(CacheFile(m)) => CacheFileAfter(m) = CacheFile(m)]_vars

\* C3 (amended): a written cache file is changed only by a call made with
\* no_cache true or by a call that found no file when it loaded the cache;
\* a call with no_cache false that finds the written file never changes it.
C3_OnlyBypassOrMissRewrites ==
    [][\A m \in MatchIds :
          (HoldsDocument(CacheFile(m)) /\ CacheFileAfter(m) # CacheFile(m))
          => \E c \in Clients :
                /\ pc[c] \in {"open", "write"}
                /\ mid[c] = m
                /\ (nocache[c] \/ cached[c].kind = "none")
                /\ (pc'[c] # pc[c] \/ pos'[c] # pos[c])]_vars

\* C3 witness: two calls have written the cache, only one file exists, and
\* it holds the document of the other call than the one that wrote first.
C3_Witness ==
    \E c \in Clients, d \in Clients, m \in MatchIds :
       /\ c # d
       /\ pc[c] = "idle" /\ wrote[c] /\ ~ioFailed[c] /\ result[c].kind = "json"
       /\ pc[d] = "idle" /\ wrote[d] /\ ~ioFailed[d] /\ result[d].kind = "json"
       /\ result[c].doc # result[d].doc
       /\ \A n \in MatchIds : CacheFile(n).exists <=> n = m
       /\ CacheFile(m).text = json_dumps(result[d].doc)

\* Client c ends the write of its call in this step.
WriteEnds(c) == pc[c] \in {"open", "write"} /\ pc'[c] = "idle"

\* Client c takes a step of its write.
WriteStep(c) ==
    pc[c] \in {"open", "write"} /\ (pc'[c] # pc[c] \/ pos'[c] # pos[c])

\* C4 (as claimed): a call that fetched a finished and started match creates
\* exactly one cache file, at the path of the match, and reading it back
\* yields the document that was written and returned.
C4_AsClaimed ==
    [][\A c \in Clients :
          /\ WriteEnds(c)
             => /\ CacheFileAfter(mid[c]).exists
                /\ json_decodes(CacheFileAfter(mid[c]).text)
                /\ json_load(CacheFileAfter(mid[c]).text) = result'[c].doc
          /\ WriteStep(c)
             => \A n \in MatchIds \ {mid[c]} : CacheFileAfter(n) = CacheFile(n)]_vars

\* C4 (amended): a call that fetched a finished and started match touches
\* no other file than the one at the path of the match; when its write ends
\* without an I/O error and no other instance touched the file meanwhile,
\* the file exists and reading it back yields the document that was written
\* and returned.
C4_WrittenFileRoundTrips ==
    [][\A c \in Clients :
          /\ (WriteEnds(c) /\ ~ioFailed'[c] /\ ~raced[c])
             => /\ CacheFileAfter(mid[c]).exists
                /\ json_decodes(CacheFileAfter(mid[c]).text)
                /\ json_load(CacheFileAfter(mid[c]).text) = result'[c].doc
                /\ result'[c] = Returned(fetched[c])
          /\ WriteStep(c)
             => \A n \in MatchIds \ {mid[c]} : CacheFileAfter(n) = CacheFile(n)]_vars

\* C4 witness: a call has written a finished match, exactly one file exists
\* and it decodes to the document the call returned; another call has read
\* the same document back from it without a network call.
C4_Witness ==
    \E c \in Clients, d \in Clients, m \in MatchIds :
       /\ c # d
       /\ pc[c] = "idle" /\ wrote[c] /\ ~ioFailed[c] /\ queried[c]
       /\ result[c].kind = "json"
       /\ \A n \in MatchIds : CacheFile(n).exists <=> n = m
       /\ json_decodes(CacheFile(m).text)
       /\ json_load(CacheFile(m).text) = result[c].doc
       /\ pc[d] = "idle" /\ ~queried[d] /\ result[d] = result[c]

\* C5: a cache file is written only for a response with started and
\* finished both true: no cache file holds an unfinished match, only a
\* finished match is ever on its way to a file, and a call that fetched an
\* unfinished match has opened no file.
C5_OnlyFinishedCached ==
    /\ \A m \in MatchIds :
          /\ \A i \in 1..Len(CacheFile(m).text) :
                CacheFile(m).text[i] \notin {"s0", "f0"}
          /\ HoldsDocument(CacheFile(m))
             => LET d == json_load(CacheFile(m).text)
                IN  d.hdr /\ d.started /\ d.finished
    /\ \A c \in Clients :
          /\ pc[c] \in {"open", "write"}
             => fetched[c].hdr /\ fetched[c].started /\ fetched[c].finished
          /\ (op[c] = "match_details" /\ pc[c] = "idle" /\ queried[c]
              /\ result[c].kind = "json"
              /\ ~(result[c].doc.started /\ result[c].doc.finished))
             => ~wrote[c]

\* C5 witness: get_match_details has fetched and returned a match with
\* finished false and no cache file exists.
C5_Witness ==
    \E c \in Clients :
       /\ op[c] = "match_details" /\ pc[c] = "idle" /\ queried[c]
       /\ result[c].kind = "json"
       /\ result[c].doc.hdr /\ result[c].doc.started /\ ~result[c].doc.finished
       /\ ~wrote[c]
       /\ \A m \in MatchIds : ~CacheFile(m).exists

\* C6: a call whose query meets a status >= 400 ends in the HTTP error: it
\* returns no JSON, it has attempted no cache write, and the step that met
\* the status leaves every cache file as it was.
C6_HttpErrorStopsTheCall ==
    [][\A c \in Clients :
          status'[c] >= 400
          => /\ pc'[c] = "idle"
             /\ result'[c] = Raised("HTTPError")
             /\ ~wrote'[c]
             /\ (status[c] < 400 => file' = file)]_vars

\* C6 witness: get_match_details met a 404 and another endpoint method met
\* an error status, both ended in the HTTP error, and the cache file that
\* existed is whole.
C6_Witness ==
    \E c \in Clients, d \in Clients, m \in MatchIds :
       /\ op[c] = "match_details" /\ status[c] = 404
       /\ result[c] = Raised("HTTPError") /\ ~wrote[c]
       /\ op[d] = "endpoint" /\ status[d] >= 400
       /\ result[d] = Raised("HTTPError")
       /\ HoldsDocument(CacheFile(m))

\* C7: when the cache write fails with an I/O error the call still returns
\* the fetched document, the same outcome as when the write succeeds.
C7_WriteErrorSwallowed ==
    [][\A c \in Clients :
          /\ (ioFailed'[c] /\ ~ioFailed[c])
             => pc'[c] = "idle" /\ result'[c] = Returned(fetched[c])
          /\ WriteEnds(c) => result'[c] = Returned(fetched[c])]_vars

\* C7 witness: a call whose write failed has returned a finished match
\* while the file it was writing is left truncated.
C7_Witness ==
    \E c \in Clients, m \in MatchIds :
       /\ pc[c] = "idle" /\ ioFailed[c] /\ wrote[c]
       /\ result[c].kind = "json" /\ result[c].doc.finished
       /\ CacheFile(m).exists /\ ~json_decodes(CacheFile(m).text)

\* The pattern 20\d{2}\d{2}\d{2}, matched at the start of the string.
MatchesPattern(d) ==
    /\ Len(d) >= 8
    /\ d[1] = "2" /\ d[2] = "0"
    /\ \A i \in 3..8 : d[i] \in {"0", "2", "9"}

\* A date written YYYY-MM-DD.
IsHyphenated(d) ==
    /\ Len(d) = 10
    /\ d[5] = "-" /\ d[8] = "-"
    /\ \A i \in {1, 2, 3, 4, 6, 7, 9, 10} : d[i] \in {"0", "2", "9"}

EmptyMapping == [kind |-> "empty", queried |-> FALSE]

C9_DirectoryExistsBeforeWrite ==
    \A c \in Clients :
       pc[c] \notin {"new", "makedirs", "failed"} => dirExists

\* C9 witness: a client is about to open the cache file, the directory is
\* there, and the construction of another client has failed.
C9_Witness ==
    \E c \in Clients, d \in Clients :
       pc[c] = "open" /\ dirExists /\ pc[d] = "failed"

\* C10: a reader whose load meets a file that is not one whole document
\* (another instance is writing it, or left it truncated) ends in the decode
\* error: it makes no network call and the file stays as it is.
C10_PartialFileRaises ==
    [][\A c \in Clients :
          (LoadStep(c) /\ CacheFile(mid[c]).exists
           /\ ~json_decodes(CacheFile(mid[c]).text))
          => /\ pc'[c] = "idle"
             /\ result'[c] = Raised("CacheDecodeError")
             /\ ~queried'[c]
             /\ file' = file]_vars

\* C10 witness: a reader met the decode error without a network call while
\* a writer was between its open and its last chunk, and the file now holds
\* the document of the writer that finished last.
C10_Witness ==
    \E c \in Clients, d \in Clients, m \in MatchIds :
       /\ c # d
       /\ pc[d] = "idle" /\ result[d] = Raised("CacheDecodeError") /\ ~queried[d]
       /\ pc[c] = "idle" /\ wrote[c] /\ ~ioFailed[c] /\ result[c].kind = "json"
       /\ \A n \in MatchIds : CacheFile(n).exists <=> n = m
       /\ CacheFile(m).text = json_dumps(result[c].doc)

====
